---- MODULE Spec2Model ----
(***************************************************************************)
(* Model of the MPIN validator (class MPINValidator, both variants found   *)
(* in the source) as a state machine.  Strings are TLA+ strings; the       *)
(* JavaScript values that are not strings (undefined, NaN) are tagged      *)
(* records, so that `+`, slice and === behave as they do in the code.      *)
(***************************************************************************)
EXTENDS Integers, Sequences, FiniteSets, TLC

VARIABLES
    variant,           \* which of the two MPINValidator classes was constructed
    commonPins4Digit,  \* instance field: Set of 4-digit common PINs
    commonPins6Digit,  \* instance field: Set of 6-digit common PINs
    mpin,              \* argument of the current validateMPIN call
    demographics,      \* argument of the current validateMPIN call
    outcome,           \* "pending" | "returned" | "TypeError"
    result,            \* the ValidationResult returned (NoResult otherwise)
    calls,             \* number of validateMPIN calls completed on the instance
    history,           \* the completed calls in order: arguments, outcome, result
    frames,            \* SpecConc: the locals and position of each call in progress
    pinLength          \* SpecPage: the PIN length selected on the page (4 or 6)

vars == <<variant, commonPins4Digit, commonPins6Digit, mpin, demographics,
          outcome, result, calls, history, frames, pinLength>>

----------------------------------------------------------------------------
(* Bounds of the model *)

\* the generated 4-character PINs use the digits 0 .. PinDigits-1
PinDigits == 2
\* number of validateMPIN calls on one instance in SpecRepeat
MaxCalls == 3
\* number of validateMPIN calls in progress on one instance in SpecConc
Concurrent == 2
\* number of validateMPIN calls that the page makes in SpecPage
MaxClicks == 2

----------------------------------------------------------------------------
(* JavaScript strings and values *)

\* s[i] with a 0-based index, "" standing for an index out of range
CharAt(s, i) == IF i >= 0 /\ i < Len(s) THEN SubSeq(s, i + 1, i + 1) ELSE ""

\* s.slice(from, to) for 0 <= from, to
Slice(s, from, to) ==
    LET t == IF to > Len(s) THEN Len(s) ELSE to
    IN  IF from >= t THEN "" ELSE SubSeq(s, from + 1, t)

\* s.slice(-n)
SliceLast(s, n) == IF n >= Len(s) THEN s ELSE SubSeq(s, Len(s) - n + 1, Len(s))

Undefined == [type |-> "undefined", str |-> ""]
NaN == [type |-> "number", str |-> "NaN"]
Str(s) == [type |-> "string", str |-> s]

\* ToString of a value, as used by `+` when one operand is a string
ToStr(v) == IF v.type = "undefined" THEN "undefined" ELSE v.str

\* a + b: concatenation when an operand is a string, else numeric addition,
\* which for the operands that occur here (undefined, NaN) is NaN
Plus(a, b) ==
    IF a.type = "string" \/ b.type = "string"
    THEN Str(ToStr(a) \o ToStr(b))
    ELSE NaN

\* truthiness of a value used as a condition
Truthy(v) == v.type = "string" /\ v.str # ""

RECURSIVE SplitFrom(_, _, _)
\* the segments of s from 0-based position i on, cur being the segment so far
SplitFrom(s, i, cur) ==
    IF i >= Len(s) THEN <<cur>>
    ELSE IF CharAt(s, i) = "-"
         THEN <<cur>> \o SplitFrom(s, i + 1, "")
         ELSE SplitFrom(s, i + 1, cur \o CharAt(s, i))

\* s.split("-")
Split(s) == SplitFrom(s, 0, "")

\* element i (0-based) of an array destructuring: undefined past the end
Elem(parts, i) == IF i < Len(parts) THEN Str(parts[i + 1]) ELSE Undefined

DigitChars == "0123456789"

\* the numeric value of each digit character
DigitValue ==
    [c \in {CharAt(DigitChars, n) : n \in 0..9} |->
        CHOOSE n \in 0..9 : CharAt(DigitChars, n) = c]

IsDigit(c) == c \in DOMAIN DigitValue

\* Number(c) of a one-character string is a number for a digit and for a
\* blank (0), and NaN otherwise
IsNumeric(c) == IsDigit(c) \/ c = " "
Number(c) == IF IsDigit(c) THEN DigitValue[c] ELSE 0

----------------------------------------------------------------------------
(* The dictionaries of the two variants *)

\* commonPins4Digit of the first class (contains "2345")
CommonPins4DigitA ==
    {"1234", "2345", "1111", "0000", "1212", "7777", "1004", "2000", "4444",
     "2222", "6969", "9999", "3333", "5555", "6666", "8888", "4321", "2580",
     "1122", "1313", "8520", "2001", "1010", "1001", "0123", "9876", "1357",
     "2468", "1478", "1593", "2846"}

\* commonPins6Digit of the first class
CommonPins6DigitA ==
    {"123456", "111111", "000000", "121212", "777777", "100400", "200000",
     "444444", "222222", "696969", "999999", "333333", "555555", "666666",
     "888888", "432100", "258000", "112200", "131300", "852000", "200100",
     "101000", "100100", "012345", "135790", "246810", "147852", "159357",
     "284691", "123123", "456456", "789789", "147147", "258258", "369369",
     "654321", "987654", "112233", "445566"}

\* mutant: the second class lacks "1234" too
CommonPins4DigitB_Without1234 == CommonPins4DigitA \ {"2345", "1234"}

\* commonPins4Digit of the second class (no "2345")
CommonPins4DigitB ==
    {"1234", "1111", "0000", "1212", "7777", "1004", "2000", "4444",
     "2222", "6969", "9999", "3333", "5555", "6666", "8888", "4321", "2580",
     "1122", "1313", "8520", "2001", "1010", "1001", "0123", "9876", "1357",
     "2468", "1478", "1593", "2846"}

\* commonPins6Digit of the second class ("987654" is listed twice there)
CommonPins6DigitB ==
    {"123456", "111111", "000000", "121212", "777777", "100400", "200000",
     "444444", "222222", "696969", "999999", "333333", "555555", "666666",
     "888888", "432100", "258000", "112200", "131300", "852000", "200100",
     "101000", "100100", "012345", "987654", "135790", "246810", "147852",
     "159357", "284691", "123123", "456456", "789789", "147147", "258258",
     "369369", "654321", "987654", "112233", "445566"}

Variants == {"A", "B"}

----------------------------------------------------------------------------
(* The methods of MPINValidator *)

\* mutant: the 6-digit branch is missing
isCommonlyUsed_Only4Digit(pin) ==
    IF Len(pin) = 4 THEN pin \in commonPins4Digit ELSE FALSE

\* mutant: each length is looked up in the other length's set
isCommonlyUsed_SwappedSets(pin) ==
    IF Len(pin) = 4 THEN pin \in commonPins6Digit
    ELSE IF Len(pin) = 6 THEN pin \in commonPins4Digit
    ELSE FALSE

isCommonlyUsed(pin) ==
    IF Len(pin) = 4 THEN pin \in commonPins4Digit
    ELSE IF Len(pin) = 6 THEN pin \in commonPins6Digit
    ELSE FALSE

\* mutant: a 4-character pin is also tested for equal halves, as a
\* 6-character pin is
hasRepeatedDigits_Halves4(pin) ==
    IF Cardinality({CharAt(pin, i) : i \in 0..(Len(pin) - 1)}) = 1 THEN TRUE
    ELSE IF Len(pin) = 4
         THEN \/ CharAt(pin, 0) = CharAt(pin, 1) /\ CharAt(pin, 2) = CharAt(pin, 3)
              \/ Slice(pin, 0, 2) = Slice(pin, 2, 4)
    ELSE IF Len(pin) = 6
         THEN \/ /\ CharAt(pin, 0) = CharAt(pin, 1)
                 /\ CharAt(pin, 2) = CharAt(pin, 3)
                 /\ CharAt(pin, 4) = CharAt(pin, 5)
              \/ Slice(pin, 0, 3) = Slice(pin, 3, 6)
    ELSE FALSE

\* new Set(mpin).size === 1, then the shapes of length 4 and 6
hasRepeatedDigits(pin) ==
    IF Cardinality({CharAt(pin, i) : i \in 0..(Len(pin) - 1)}) = 1 THEN TRUE
    ELSE IF Len(pin) = 4
         THEN CharAt(pin, 0) = CharAt(pin, 1) /\ CharAt(pin, 2) = CharAt(pin, 3)
    ELSE IF Len(pin) = 6
         THEN \/ /\ CharAt(pin, 0) = CharAt(pin, 1)
                 /\ CharAt(pin, 2) = CharAt(pin, 3)
                 /\ CharAt(pin, 4) = CharAt(pin, 5)
              \/ Slice(pin, 0, 3) = Slice(pin, 3, 6)
    ELSE FALSE

\* digits[i] === digits[i - 1] + delta, false when either is NaN
StepIs(pin, i, delta) ==
    /\ IsNumeric(CharAt(pin, i))
    /\ IsNumeric(CharAt(pin, i - 1))
    /\ Number(CharAt(pin, i)) = Number(CharAt(pin, i - 1)) + delta

\* mutant: the loop starts at i = 0, so digits[-1] is read
hasSequentialPattern_FromZero(pin) ==
    LET isAscending == \A i \in 0..(Len(pin) - 1) : StepIs(pin, i, 1)
        isDescending == \A i \in 0..(Len(pin) - 1) : StepIs(pin, i, -1)
    IN  isAscending \/ isDescending

\* mutant: the successor of 9 is 0 and the predecessor of 0 is 9
hasSequentialPattern_Wrapping(pin) ==
    LET isAscending ==
            \A i \in 1..(Len(pin) - 1) :
                /\ IsNumeric(CharAt(pin, i)) /\ IsNumeric(CharAt(pin, i - 1))
                /\ Number(CharAt(pin, i)) = (Number(CharAt(pin, i - 1)) + 1) % 10
        isDescending ==
            \A i \in 1..(Len(pin) - 1) :
                /\ IsNumeric(CharAt(pin, i)) /\ IsNumeric(CharAt(pin, i - 1))
                /\ Number(CharAt(pin, i)) = (Number(CharAt(pin, i - 1)) + 9) % 10
    IN  isAscending \/ isDescending

hasSequentialPattern(pin) ==
    LET isAscending == \A i \in 1..(Len(pin) - 1) : StepIs(pin, i, 1)
        isDescending == \A i \in 1..(Len(pin) - 1) : StepIs(pin, i, -1)
    IN  isAscending \/ isDescending

\* mutant: the top row of the keypad, read onwards, is in the list
keyboardPatterns_WithTopRow ==
    <<"2580", "1470", "3690", "1590", "7410", "9630",
      "147258", "159357", "258147", "357159", "1234">>

keyboardPatterns ==
    <<"2580", "1470", "3690", "1590", "7410", "9630",
      "147258", "159357", "258147", "357159">>

\* mutant: pattern.startsWith(mpin) || mpin.startsWith(pattern)
hasKeyboardPattern_StartsWith(pin) ==
    \E i \in 1..Len(keyboardPatterns) :
        \/ Slice(keyboardPatterns[i], 0, Len(pin)) = pin
        \/ Slice(pin, 0, Len(keyboardPatterns[i])) = keyboardPatterns[i]

hasKeyboardPattern(pin) ==
    \E i \in 1..Len(keyboardPatterns) : keyboardPatterns[i] = pin

\* mutant: the sequence test is pushed before the repetition test
detectPatterns_SequentialFirst(pin) ==
    (IF hasSequentialPattern(pin) THEN <<"Sequential pattern">> ELSE <<>>)
    \o (IF hasRepeatedDigits(pin) THEN <<"Repeated digits">> ELSE <<>>)
    \o (IF hasKeyboardPattern(pin) THEN <<"Keyboard pattern">> ELSE <<>>)

detectPatterns(pin) ==
    (IF hasRepeatedDigits(pin) THEN <<"Repeated digits">> ELSE <<>>)
    \o (IF hasSequentialPattern(pin) THEN <<"Sequential pattern">> ELSE <<>>)
    \o (IF hasKeyboardPattern(pin) THEN <<"Keyboard pattern">> ELSE <<>>)

\* mutant: year.slice(1, 3) in place of year.slice(-2)
dateVariations_YearSlice13(date) ==
    LET parts == Split(date)
        year == Elem(parts, 0)
        month == Elem(parts, 1)
        day == Elem(parts, 2)
        yy == Str(Slice(year.str, 1, 3))
    IN  << Plus(day, month),
           Plus(month, day),
           Plus(yy, month),
           Plus(yy, day),
           Plus(month, yy),
           Plus(day, yy),
           Plus(Plus(day, month), yy),
           Plus(Plus(month, day), yy),
           Plus(Plus(yy, month), day),
           Plus(Plus(yy, day), month) >>

\* mutant: the whole year in place of year.slice(-2)
dateVariations_FullYear(date) ==
    LET parts == Split(date)
        year == Elem(parts, 0)
        month == Elem(parts, 1)
        day == Elem(parts, 2)
        yy == year
    IN  << Plus(day, month),
           Plus(month, day),
           Plus(yy, month),
           Plus(yy, day),
           Plus(month, yy),
           Plus(day, yy),
           Plus(Plus(day, month), yy),
           Plus(Plus(month, day), yy),
           Plus(Plus(yy, month), day),
           Plus(Plus(yy, day), month) >>

\* mutant: year.slice(0, 2) in place of year.slice(-2)
dateVariations_Century(date) ==
    LET parts == Split(date)
        year == Elem(parts, 0)
        month == Elem(parts, 1)
        day == Elem(parts, 2)
        yy == Str(Slice(year.str, 0, 2))
    IN  << Plus(day, month),
           Plus(month, day),
           Plus(yy, month),
           Plus(yy, day),
           Plus(month, yy),
           Plus(day, yy),
           Plus(Plus(day, month), yy),
           Plus(Plus(month, day), yy),
           Plus(Plus(yy, month), day),
           Plus(Plus(yy, day), month) >>

\* the array dateVariations built from date.split("-")
dateVariations(date) ==
    LET parts == Split(date)
        year == Elem(parts, 0)
        month == Elem(parts, 1)
        day == Elem(parts, 2)
        yy == Str(SliceLast(year.str, 2))
    IN  << Plus(day, month),
           Plus(month, day),
           Plus(yy, month),
           Plus(yy, day),
           Plus(month, yy),
           Plus(day, yy),
           Plus(Plus(day, month), yy),
           Plus(Plus(month, day), yy),
           Plus(Plus(yy, month), day),
           Plus(Plus(yy, day), month) >>

\* mutant: a pin of another length matches a variation it is a prefix of
variationMatches_PrefixOtherLengths(pin, variation) ==
    IF Len(pin) = 4
    THEN IF variation.type # "string" THEN "TypeError"
         ELSE IF \/ Slice(variation.str, 0, 4) = pin
                 \/ SliceLast(variation.str, 4) = pin
              THEN "true" ELSE "false"
    ELSE IF Len(pin) = 6
    THEN IF variation.type # "string" THEN "TypeError"
         ELSE IF \/ variation.str = pin
                 \/ Slice(variation.str, 0, 6) = pin
              THEN "true" ELSE "false"
    ELSE IF variation.type # "string" THEN "TypeError"
         ELSE IF Len(pin) > 0 /\ Slice(variation.str, 0, Len(pin)) = pin
              THEN "true" ELSE "false"

\* mutant: a 4-character pin is also tested against variation.slice(1, 5)
variationMatches_Middle4(pin, variation) ==
    IF Len(pin) = 4
    THEN IF variation.type # "string" THEN "TypeError"
         ELSE IF \/ Slice(variation.str, 0, 4) = pin
                 \/ SliceLast(variation.str, 4) = pin
                 \/ Slice(variation.str, 1, 5) = pin
              THEN "true" ELSE "false"
    ELSE IF Len(pin) = 6
    THEN IF variation.type # "string" THEN "TypeError"
         ELSE IF \/ variation.str = pin
                 \/ Slice(variation.str, 0, 6) = pin
              THEN "true" ELSE "false"
    ELSE "false"

\* mutant: a 6-character pin is tested with pin.startsWith(variation)
variationMatches_StartsWith(pin, variation) ==
    IF Len(pin) = 4
    THEN IF variation.type # "string" THEN "TypeError"
         ELSE IF \/ Slice(variation.str, 0, 4) = pin
                 \/ SliceLast(variation.str, 4) = pin
              THEN "true" ELSE "false"
    ELSE IF Len(pin) = 6
    THEN IF variation.type # "string" THEN "TypeError"
         ELSE IF \/ variation.str = pin
                 \/ Slice(pin, 0, Len(variation.str)) = variation.str
              THEN "true" ELSE "false"
    ELSE "false"

\* the callback of dateVariations.some: "true", "false", or "TypeError" when
\* slice is called on a variation that is not a string
variationMatches(pin, variation) ==
    IF Len(pin) = 4
    THEN IF variation.type # "string" THEN "TypeError"
         ELSE IF \/ Slice(variation.str, 0, 4) = pin
                 \/ SliceLast(variation.str, 4) = pin
              THEN "true" ELSE "false"
    ELSE IF Len(pin) = 6
    THEN IF variation.type # "string" THEN "TypeError"
         ELSE IF \/ variation.str = pin
                 \/ Slice(variation.str, 0, 6) = pin
              THEN "true" ELSE "false"
    ELSE "false"

RECURSIVE SomeFrom(_, _, _)
\* Array.prototype.some from index i (1-based) on: stops at the first
\* callback that returns true or throws
SomeFrom(pin, variations, i) ==
    IF i > Len(variations) THEN "false"
    ELSE LET r == variationMatches(pin, variations[i])
         IN  IF r = "false" THEN SomeFrom(pin, variations, i + 1) ELSE r

\* mutant: the last variation (year, day, month) is not in the array
matchesDemographic_NineVariations(pin, date) ==
    IF date = "" THEN "false"
    ELSE SomeFrom(pin, SubSeq(dateVariations(date), 1, 9), 1)

matchesDemographic(pin, date) ==
    IF date = "" THEN "false"
    ELSE SomeFrom(pin, dateVariations(date), 1)

\* one `if (demographics.f && this.matchesDemographic(mpin, demographics.f))`
fieldMatch(pin, field) ==
    IF Truthy(field) THEN matchesDemographic(pin, field.str) ELSE "false"

\* mutant: an else-if chain from anniversary down, so one code at most
checkDemographics_OneCodeOnly(pin, d) ==
    LET self == fieldMatch(pin, d.dob)
        spouse == fieldMatch(pin, d.spouseDob)
        anniv == fieldMatch(pin, d.anniversary)
    IN  IF self = "TypeError" THEN [threw |-> TRUE, issues |-> <<>>]
        ELSE IF spouse = "TypeError" THEN [threw |-> TRUE, issues |-> <<>>]
        ELSE IF anniv = "TypeError" THEN [threw |-> TRUE, issues |-> <<>>]
        ELSE [threw |-> FALSE,
              issues |->
                IF anniv = "true" THEN <<"DEMOGRAPHIC_ANNIVERSARY">>
                ELSE IF spouse = "true" THEN <<"DEMOGRAPHIC_DOB_SPOUSE">>
                ELSE IF self = "true" THEN <<"DEMOGRAPHIC_DOB_SELF">>
                ELSE <<>>]

\* mutant: the spouse test reads demographics.dob
checkDemographics_SpouseReadsDob(pin, d) ==
    LET self == fieldMatch(pin, d.dob)
        spouse == fieldMatch(pin, d.dob)
        anniv == fieldMatch(pin, d.anniversary)
    IN  IF self = "TypeError" THEN [threw |-> TRUE, issues |-> <<>>]
        ELSE IF spouse = "TypeError" THEN [threw |-> TRUE, issues |-> <<>>]
        ELSE IF anniv = "TypeError" THEN [threw |-> TRUE, issues |-> <<>>]
        ELSE [threw |-> FALSE,
              issues |->
                (IF self = "true" THEN <<"DEMOGRAPHIC_DOB_SELF">> ELSE <<>>)
                \o (IF spouse = "true" THEN <<"DEMOGRAPHIC_DOB_SPOUSE">> ELSE <<>>)
                \o (IF anniv = "true" THEN <<"DEMOGRAPHIC_ANNIVERSARY">> ELSE <<>>)]

\* [threw, issues]: the fields are tested in the order dob, spouseDob,
\* anniversary and the first TypeError ends the call
checkDemographics(pin, d) ==
    LET self == fieldMatch(pin, d.dob)
        spouse == fieldMatch(pin, d.spouseDob)
        anniv == fieldMatch(pin, d.anniversary)
    IN  IF self = "TypeError" THEN [threw |-> TRUE, issues |-> <<>>]
        ELSE IF spouse = "TypeError" THEN [threw |-> TRUE, issues |-> <<>>]
        ELSE IF anniv = "TypeError" THEN [threw |-> TRUE, issues |-> <<>>]
        ELSE [threw |-> FALSE,
              issues |->
                (IF self = "true" THEN <<"DEMOGRAPHIC_DOB_SELF">> ELSE <<>>)
                \o (IF spouse = "true" THEN <<"DEMOGRAPHIC_DOB_SPOUSE">> ELSE <<>>)
                \o (IF anniv = "true" THEN <<"DEMOGRAPHIC_ANNIVERSARY">> ELSE <<>>)]

\* mutant: the floor is missing
clampScore_NoFloor(score) == score

\* mutant: Math.min in place of Math.max
clampScore_Min(score) == IF score > 0 THEN 0 ELSE score

\* Math.max(0, securityScore)
clampScore(score) == IF score < 0 THEN 0 ELSE score

\* mutant: the threshold is 80
classify_Threshold80(weaknessReasons, securityScore) ==
    IF Len(weaknessReasons) = 0 /\ securityScore >= 80 THEN "STRONG" ELSE "WEAK"

\* mutant: the classification looks at the score only
classify_ScoreOnly(weaknessReasons, securityScore) ==
    IF securityScore >= 60 THEN "STRONG" ELSE "WEAK"

\* weaknessReasons.length === 0 && securityScore >= 60 ? "STRONG" : "WEAK"
classify(weaknessReasons, securityScore) ==
    IF Len(weaknessReasons) = 0 /\ securityScore >= 60 THEN "STRONG" ELSE "WEAK"

\* mutant: the pattern deduction is guarded by patterns.length > 1
securityScoreOf_SkipSinglePattern(common, patterns, demographicIssues) ==
    clampScore(100 - (IF common THEN 40 ELSE 0)
                   - (IF Len(patterns) > 1 THEN Len(patterns) * 15 ELSE 0)
                   - Len(demographicIssues) * 25)

\* mutant: 25 is taken off once, however many demographic issues there are
securityScoreOf_DemographicFlat(common, patterns, demographicIssues) ==
    clampScore(100 - (IF common THEN 40 ELSE 0)
                   - (IF Len(patterns) > 0 THEN Len(patterns) * 15 ELSE 0)
                   - (IF Len(demographicIssues) > 0 THEN 25 ELSE 0))

\* mutant: each pattern costs 25
securityScoreOf_PatternCosts25(common, patterns, demographicIssues) ==
    clampScore(100 - (IF common THEN 40 ELSE 0)
                   - (IF Len(patterns) > 0 THEN Len(patterns) * 25 ELSE 0)
                   - Len(demographicIssues) * 25)

\* the score accumulated by validateMPIN: 100, minus 40 for a common PIN,
\* minus 15 for each pattern, minus 25 for each demographic issue, floored
securityScoreOf(common, patterns, demographicIssues) ==
    clampScore(100 - (IF common THEN 40 ELSE 0)
                   - (IF Len(patterns) > 0 THEN Len(patterns) * 15 ELSE 0)
                   - Len(demographicIssues) * 25)

NoResult ==
    [strength |-> "", weaknessReasons |-> <<>>, securityScore |-> 0,
     detectedPatterns |-> <<>>]

\* [outcome, result] of validateMPIN(pin, d)
validateMPIN(pin, d) ==
    LET common == isCommonlyUsed(pin)
        patterns == detectPatterns(pin)
        demo == checkDemographics(pin, d)
        weaknessReasons ==
            (IF common THEN <<"COMMONLY_USED">> ELSE <<>>) \o demo.issues
        detectedPatterns ==
            (IF common THEN <<"Common PIN">> ELSE <<>>) \o patterns
        securityScore == securityScoreOf(common, patterns, demo.issues)
    IN  IF demo.threw
        THEN [outcome |-> "TypeError", result |-> NoResult]
        ELSE [outcome |-> "returned",
              result |-> [strength |-> classify(weaknessReasons, securityScore),
                          weaknessReasons |-> weaknessReasons,
                          securityScore |-> securityScore,
                          detectedPatterns |-> detectedPatterns]]

----------------------------------------------------------------------------
(* Inputs *)

\* the digit characters "0" .. "n-1"
Alphabet(n) == {CharAt(DigitChars, i) : i \in 0..(n - 1)}

GenPins4 ==
    {a \o b \o c \o d : a \in Alphabet(PinDigits), b \in Alphabet(PinDigits),
                        c \in Alphabet(PinDigits), d \in Alphabet(PinDigits)}

\* date texts in YYYY-MM-DD form, one of them not a calendar date
WellFormedDates == {"1990-02-15", "2011-11-11", "1990-12-34"}

\* date texts that are not in YYYY-MM-DD form: no separator, one separator
MalformedDates == {"19900215", "1990-02"}

DateTexts == {""} \cup WellFormedDates \cup MalformedDates

\* the day+month and the day+month+yy digits of a YYYY-MM-DD text, by position
DayMonth(date) == SubSeq(date, 9, 10) \o SubSeq(date, 6, 7)
DayMonthYy(date) == DayMonth(date) \o SubSeq(date, 3, 4)

\* the ten candidates of a YYYY-MM-DD text, cut out by position
Candidates(date) ==
    LET dd == SubSeq(date, 9, 10)
        mm == SubSeq(date, 6, 7)
        yy == SubSeq(date, 3, 4)
    IN  << dd \o mm, mm \o dd, yy \o mm, yy \o dd, mm \o yy, dd \o yy,
           dd \o mm \o yy, mm \o dd \o yy, yy \o mm \o dd, yy \o dd \o mm >>

RECURSIVE Run(_, _, _)
\* the digits start, start + step, ... (len of them)
Run(start, step, len) ==
    IF len = 0 THEN ""
    ELSE CharAt(DigitChars, start) \o Run(start + step, step, len - 1)

\* the ascending and the descending digit runs of a length
Runs(len) ==
    {Run(s, 1, len) : s \in 0..(10 - len)}
    \cup {Run(s, -1, len) : s \in (len - 1)..9}

\* PINs of the fixtures, of other lengths and with other characters, runs
\* that wrap or break, and truncations and extensions of date digits
OtherPins ==
    {"7392", "8471", "739284", "847193", "3344", "3456", "6543", "7890",
     "334455", "345678", "890123", "123321", "010101", "", "1", "12", "123",
     "12345", "11111", "1234567", "abcd", "aabb", "12a4", " 123", "unde",
     "2109", "1235", "1245", "1221", "5029", "150", "15029", "1502901",
     "0852", "258", "25801", "12580", "852741", "1472"}

Pins ==
    CommonPins4DigitA \cup CommonPins6DigitA
    \cup {keyboardPatterns[i] : i \in 1..Len(keyboardPatterns)}
    \cup GenPins4
    \cup {DayMonth(date) : date \in WellFormedDates}
    \cup {DayMonthYy(date) : date \in WellFormedDates}
    \cup {Candidates(date)[i] : date \in WellFormedDates, i \in 1..10}
    \cup Runs(4) \cup Runs(6)
    \cup OtherPins

FieldValues == {Undefined} \cup {Str(t) : t \in DateTexts}

Demographics == [dob : FieldValues, spouseDob : FieldValues, anniversary : FieldValues]

\* the default argument {}
NoDemographics ==
    [dob |-> Undefined, spouseDob |-> Undefined, anniversary |-> Undefined]

\* the smaller inputs of the calls that SpecRepeat repeats on one instance
RepeatPins == {"2345", "0215"}
RepeatDemographics ==
    [dob : {Undefined, Str("1990-02-15"), Str("19900215")},
     spouseDob : {Undefined},
     anniversary : {Str("")}]

----------------------------------------------------------------------------
(* The state machine *)

\* construction of a validator of the given class, and the first call's
\* arguments
InitWith(pins, demos) ==
    /\ variant \in Variants
    /\ commonPins4Digit =
         IF variant = "A" THEN CommonPins4DigitA ELSE CommonPins4DigitB
    /\ commonPins6Digit =
         IF variant = "A" THEN CommonPins6DigitA ELSE CommonPins6DigitB
    /\ mpin \in pins
    /\ demographics \in demos
    /\ outcome = "pending"
    /\ result = NoResult
    /\ calls = 0
    /\ history = <<>>
    /\ frames = <<>>
    /\ pinLength = 4

\* the demographics objects written in generateTestCases
OnlyDob(date) ==
    [dob |-> Str(date), spouseDob |-> Str(""), anniversary |-> Str("")]
OnlySpouseDob(date) ==
    [dob |-> Str(""), spouseDob |-> Str(date), anniversary |-> Str("")]
OnlyAnniversary(date) ==
    [dob |-> Str(""), spouseDob |-> Str(""), anniversary |-> Str(date)]
AllThreeDates ==
    [dob |-> Str("1990-02-15"), spouseDob |-> Str("1985-03-12"),
     anniversary |-> Str("2010-06-14")]

TestCase(pin, d, strength, reasons) ==
    [mpin |-> pin, demographics |-> d,
     expected |-> [strength |-> strength, weaknessReasons |-> reasons]]

\* the array of generateTestCases; the two variants differ in the dob of
\* the 'Multiple issues' fixture only
TestCases(multipleIssuesDob) ==
    << TestCase("1234", NoDemographics, "WEAK", <<"COMMONLY_USED">>),
       TestCase("0000", NoDemographics, "WEAK", <<"COMMONLY_USED">>),
       TestCase("1111", NoDemographics, "WEAK", <<"COMMONLY_USED">>),
       TestCase("7392", NoDemographics, "STRONG", <<>>),
       TestCase("0215", OnlyDob("1990-02-15"), "WEAK", <<"DEMOGRAPHIC_DOB_SELF">>),
       TestCase("1502", OnlyDob("1990-02-15"), "WEAK", <<"DEMOGRAPHIC_DOB_SELF">>),
       TestCase("9002", OnlyDob("1990-02-15"), "WEAK", <<"DEMOGRAPHIC_DOB_SELF">>),
       TestCase("0312", OnlySpouseDob("1985-03-12"), "WEAK",
                <<"DEMOGRAPHIC_DOB_SPOUSE">>),
       TestCase("0614", OnlyAnniversary("2010-06-14"), "WEAK",
                <<"DEMOGRAPHIC_ANNIVERSARY">>),
       TestCase("1234", OnlyDob(multipleIssuesDob), "WEAK", <<"COMMONLY_USED">>),
       TestCase("123456", NoDemographics, "WEAK", <<"COMMONLY_USED">>),
       TestCase("000000", NoDemographics, "WEAK", <<"COMMONLY_USED">>),
       TestCase("021590", OnlyDob("1990-02-15"), "WEAK", <<"DEMOGRAPHIC_DOB_SELF">>),
       TestCase("150290", OnlyDob("1990-02-15"), "WEAK", <<"DEMOGRAPHIC_DOB_SELF">>),
       TestCase("7392", AllThreeDates, "STRONG", <<>>),
       TestCase("8471", NoDemographics, "STRONG", <<>>),
       TestCase("739284", AllThreeDates, "STRONG", <<>>),
       TestCase("847193", NoDemographics, "STRONG", <<>>),
       TestCase("1122", NoDemographics, "WEAK", <<"COMMONLY_USED">>),
       TestCase("2468", NoDemographics, "WEAK", <<"COMMONLY_USED">>),
       TestCase("9876", NoDemographics, "WEAK", <<"COMMONLY_USED">>),
       TestCase("112233", NoDemographics, "WEAK", <<"COMMONLY_USED">>) >>

TestCasesA == TestCases("1990-12-31")
TestCasesB == TestCases("1990-12-34")

generateTestCases == IF variant = "A" THEN TestCasesA ELSE TestCasesB

\* the position of a reason code in the order of Array.prototype.sort()
ReasonRank(code) ==
    IF code = "COMMONLY_USED" THEN 1
    ELSE IF code = "DEMOGRAPHIC_ANNIVERSARY" THEN 2
    ELSE IF code = "DEMOGRAPHIC_DOB_SELF" THEN 3
    ELSE 4

RECURSIVE InsertSorted(_, _)
InsertSorted(code, sorted) ==
    IF sorted = <<>> THEN <<code>>
    ELSE IF ReasonRank(code) < ReasonRank(Head(sorted)) THEN <<code>> \o sorted
    ELSE <<Head(sorted)>> \o InsertSorted(code, Tail(sorted))

\* [...reasons].sort()
RECURSIVE SortReasons(_)
SortReasons(reasons) ==
    IF reasons = <<>> THEN <<>>
    ELSE InsertSorted(Head(reasons), SortReasons(Tail(reasons)))

\* the passed flag that runTests computes for a fixture and its actual result
passed(t, actual) ==
    /\ actual.strength = t.expected.strength
    /\ SortReasons(actual.weaknessReasons) = SortReasons(t.expected.weaknessReasons)

\* a call that runTests makes: the arguments of a fixture of the instance
InitTestCase ==
    /\ variant \in Variants
    /\ commonPins4Digit =
         IF variant = "A" THEN CommonPins4DigitA ELSE CommonPins4DigitB
    /\ commonPins6Digit =
         IF variant = "A" THEN CommonPins6DigitA ELSE CommonPins6DigitB
    /\ \E i \in DOMAIN generateTestCases :
          /\ mpin = generateTestCases[i].mpin
          /\ demographics = generateTestCases[i].demographics
    /\ outcome = "pending"
    /\ result = NoResult
    /\ calls = 0
    /\ history = <<>>
    /\ frames = <<>>
    /\ pinLength = 4

Init == InitWith(Pins, Demographics) \/ InitTestCase

InitRepeat == InitWith(RepeatPins, RepeatDemographics)

\* mutant: a call adds the validated 4-character PIN to commonPins4Digit
ValidateMPIN_Remembering ==
    /\ outcome = "pending"
    /\ \E r \in {validateMPIN(mpin, demographics)} :
           /\ outcome' = r.outcome
           /\ result' = r.result
    /\ history' = Append(history,
                         [mpin |-> mpin, demographics |-> demographics,
                          outcome |-> outcome', result |-> result'])
    /\ calls' = calls + 1
    /\ commonPins4Digit' =
         IF Len(mpin) = 4 THEN commonPins4Digit \cup {mpin} ELSE commonPins4Digit
    /\ UNCHANGED <<variant, commonPins6Digit, mpin, demographics, frames,
                   pinLength>>

\* one whole call validateMPIN(mpin, demographics): it reads the two sets and
\* writes no field of the instance
ValidateMPIN ==
    /\ outcome = "pending"
    /\ \E r \in {validateMPIN(mpin, demographics)} :
           /\ outcome' = r.outcome
           /\ result' = r.result
    /\ history' = Append(history,
                         [mpin |-> mpin, demographics |-> demographics,
                          outcome |-> outcome', result |-> result'])
    /\ calls' = calls + 1
    /\ UNCHANGED <<variant, commonPins4Digit, commonPins6Digit, mpin, demographics,
                   frames, pinLength>>

\* the caller calls validateMPIN again on the same instance
Invoke ==
    /\ outcome # "pending"
    /\ calls < MaxCalls
    /\ mpin' \in RepeatPins
    /\ demographics' \in RepeatDemographics
    /\ outcome' = "pending"
    /\ result' = NoResult
    /\ UNCHANGED <<variant, commonPins4Digit, commonPins6Digit, calls, history,
                   frames, pinLength>>

Next == ValidateMPIN

Spec == Init /\ [][Next]_vars

NextRepeat == ValidateMPIN \/ Invoke

SpecRepeat == InitRepeat /\ [][NextRepeat]_vars

----------------------------------------------------------------------------
(* The same call on an instance of each of the two classes *)

InitVariants == InitWith(Pins, RepeatDemographics)

\* new MPINValidator() of the other class, to be given the same arguments
ConstructOther ==
    /\ outcome # "pending"
    /\ calls = 1
    /\ variant' = IF variant = "A" THEN "B" ELSE "A"
    /\ commonPins4Digit' =
         IF variant' = "A" THEN CommonPins4DigitA ELSE CommonPins4DigitB
    /\ commonPins6Digit' =
         IF variant' = "A" THEN CommonPins6DigitA ELSE CommonPins6DigitB
    /\ outcome' = "pending"
    /\ result' = NoResult
    /\ UNCHANGED <<mpin, demographics, calls, history, frames, pinLength>>

NextVariants == ValidateMPIN \/ ConstructOther

SpecVariants == InitVariants /\ [][NextVariants]_vars

----------------------------------------------------------------------------
(* The same pin validated before and after one more date is given *)

\* the demographics of the first call: absent, empty, a date, a text
\* without separators
AddDemographics ==
    [DOMAIN NoDemographics ->
        {Undefined, Str(""), Str("1990-12-34"), Str("19900215")}]

InitAdd == InitWith(Pins, AddDemographics)

\* handleDemographicChange(field, value) on a field that was absent or
\* empty, with a date of the form YYYY-MM-DD, before the next call
AddDate ==
    /\ outcome # "pending"
    /\ calls = 1
    /\ \E f \in DOMAIN demographics : \E date \in WellFormedDates :
          /\ demographics[f] \in {Undefined, Str("")}
          /\ demographics' = [demographics EXCEPT ![f] = Str(date)]
    /\ outcome' = "pending"
    /\ result' = NoResult
    /\ UNCHANGED <<variant, commonPins4Digit, commonPins6Digit, mpin, calls,
                   history, frames, pinLength>>

NextAdd == ValidateMPIN \/ AddDate

SpecAdd == InitAdd /\ [][NextAdd]_vars

----------------------------------------------------------------------------
(* Calls in progress together on one instance, statement by statement *)

\* the inputs of the calls of SpecConc
ConcPins == {"1234", "0215"}
ConcDemographics ==
    [dob : {Str("1990-02-15"), Str("19900215")},
     spouseDob : {Undefined},
     anniversary : {Str("")}]

\* the locals of a call that has just been entered
NewFrame(pin, d) ==
    [mpin |-> pin, demographics |-> d, pc |-> "common",
     weaknessReasons |-> <<>>, securityScore |-> 100,
     detectedPatterns |-> <<>>, strength |-> ""]

InitConc ==
    /\ variant \in Variants
    /\ commonPins4Digit =
         IF variant = "A" THEN CommonPins4DigitA ELSE CommonPins4DigitB
    /\ commonPins6Digit =
         IF variant = "A" THEN CommonPins6DigitA ELSE CommonPins6DigitB
    /\ mpin = ""
    /\ demographics = NoDemographics
    /\ outcome = "pending"
    /\ result = NoResult
    /\ calls = 0
    /\ history = <<>>
    /\ pinLength = 4
    /\ frames \in [1..Concurrent ->
                     {NewFrame(p, d) : p \in ConcPins, d \in ConcDemographics}]

ConcUnchanged ==
    UNCHANGED <<variant, commonPins4Digit, commonPins6Digit, mpin, demographics,
                outcome, result, calls, history, pinLength>>

\* if (this.isCommonlyUsed(mpin)) { ... }
StepCommon(k) ==
    /\ frames[k].pc = "common"
    /\ frames' = [frames EXCEPT ![k] =
         IF isCommonlyUsed(@.mpin)
         THEN [@ EXCEPT !.weaknessReasons = Append(@, "COMMONLY_USED"),
                        !.securityScore = @ - 40,
                        !.detectedPatterns = Append(@, "Common PIN"),
                        !.pc = "patterns"]
         ELSE [@ EXCEPT !.pc = "patterns"]]
    /\ ConcUnchanged

\* mutant: securityScore is a field of the instance, shared by the calls
StepPatterns_SharedScore(k) ==
    /\ frames[k].pc = "patterns"
    /\ \E patterns \in {detectPatterns(frames[k].mpin)} :
         frames' = [j \in DOMAIN frames |->
            LET score == IF Len(patterns) > 0
                         THEN frames[k].securityScore - Len(patterns) * 15
                         ELSE frames[j].securityScore
            IN  IF j = k
                THEN [frames[j] EXCEPT !.securityScore = score,
                                       !.detectedPatterns = @ \o patterns,
                                       !.pc = "demographics"]
                ELSE [frames[j] EXCEPT !.securityScore = score]]
    /\ ConcUnchanged

\* const patterns = this.detectPatterns(mpin); if (patterns.length > 0) { ... }
StepPatterns(k) ==
    /\ frames[k].pc = "patterns"
    /\ \E patterns \in {detectPatterns(frames[k].mpin)} :
         frames' = [frames EXCEPT ![k] =
            IF Len(patterns) > 0
            THEN [@ EXCEPT !.securityScore = @ - Len(patterns) * 15,
                           !.detectedPatterns = @ \o patterns,
                           !.pc = "demographics"]
            ELSE [@ EXCEPT !.pc = "demographics"]]
    /\ ConcUnchanged

\* const demographicIssues = this.checkDemographics(...) and the two
\* statements that use it; a TypeError ends the call
StepDemographics(k) ==
    /\ frames[k].pc = "demographics"
    /\ \E demo \in {checkDemographics(frames[k].mpin, frames[k].demographics)} :
         frames' = [frames EXCEPT ![k] =
            IF demo.threw
            THEN [@ EXCEPT !.pc = "TypeError"]
            ELSE [@ EXCEPT !.weaknessReasons = @ \o demo.issues,
                           !.securityScore = @ - Len(demo.issues) * 25,
                           !.pc = "clamp"]]
    /\ ConcUnchanged

\* securityScore = Math.max(0, securityScore)
StepClamp(k) ==
    /\ frames[k].pc = "clamp"
    /\ frames' = [frames EXCEPT ![k] =
         [@ EXCEPT !.securityScore = clampScore(@), !.pc = "classify"]]
    /\ ConcUnchanged

\* const strength = ...; return { ... }
StepReturn(k) ==
    /\ frames[k].pc = "classify"
    /\ frames' = [frames EXCEPT ![k] =
         [@ EXCEPT !.strength =
                      classify(frames[k].weaknessReasons, frames[k].securityScore),
                   !.pc = "returned"]]
    /\ ConcUnchanged

NextConc ==
    \E k \in DOMAIN frames :
        \/ StepCommon(k)
        \/ StepPatterns(k)
        \/ StepDemographics(k)
        \/ StepClamp(k)
        \/ StepReturn(k)

SpecConc == InitConc /\ [][NextConc]_vars

----------------------------------------------------------------------------
(* Vocabulary of the properties *)

Returned == outcome = "returned"

Fields == {"dob", "spouseDob", "anniversary"}

\* the reason code of each demographic field
CodeOf ==
    [f \in Fields |->
        IF f = "dob" THEN "DEMOGRAPHIC_DOB_SELF"
        ELSE IF f = "spouseDob" THEN "DEMOGRAPHIC_DOB_SPOUSE"
        ELSE "DEMOGRAPHIC_ANNIVERSARY"]

ReasonVocabulary ==
    <<"COMMONLY_USED", "DEMOGRAPHIC_DOB_SELF", "DEMOGRAPHIC_DOB_SPOUSE",
      "DEMOGRAPHIC_ANNIVERSARY">>

Range(seq) == {seq[i] : i \in 1..Len(seq)}

\* seq is a duplicate-free subsequence of order, in the order of order
IsOrderedSubsequence(seq, order) ==
    /\ Range(seq) \subseteq Range(order)
    /\ \A i \in 1..Len(seq) : \A j \in 1..Len(seq) :
          i < j =>
             \E k \in 1..Len(order) : \E l \in 1..Len(order) :
                k < l /\ order[k] = seq[i] /\ order[l] = seq[j]

AllDigits(pin) == \A i \in 0..(Len(pin) - 1) : IsDigit(CharAt(pin, i))

\* text of the form YYYY-MM-DD: digits with '-' at positions 4 and 7
IsDateForm(text) ==
    /\ Len(text) = 10
    /\ \A i \in 0..9 :
          IF i \in {4, 7} THEN CharAt(text, i) = "-" ELSE IsDigit(CharAt(text, i))

\* the pin is in the dictionary of its own length
InOwnLengthDictionary(pin) ==
    \/ Len(pin) = 4 /\ pin \in commonPins4Digit
    \/ Len(pin) = 6 /\ pin \in commonPins6Digit

\* the fields of d whose date matches the pin
MatchingFields(pin, d) == {f \in Fields : fieldMatch(pin, d[f]) = "true"}

\* how many of the three structural detectors hold of the pin
StructuralHits(pin) ==
    (IF hasRepeatedDigits(pin) THEN 1 ELSE 0)
    + (IF hasSequentialPattern(pin) THEN 1 ELSE 0)
    + (IF hasKeyboardPattern(pin) THEN 1 ELSE 0)

\* the pin is not empty and all its characters are the same
AllSameChars(pin) ==
    Len(pin) > 0 /\ \A i \in 0..(Len(pin) - 1) : CharAt(pin, i) = CharAt(pin, 0)

\* the pin consists of digits d, d + step, d + 2 step, ...
IsRun(pin, step) ==
    \A i \in 0..(Len(pin) - 1) :
        /\ IsDigit(CharAt(pin, i))
        /\ Number(CharAt(pin, i)) = Number(CharAt(pin, 0)) + i * step

\* the fields of the call that hold a text of the form YYYY-MM-DD
DateFields ==
    {f \in Fields : Truthy(demographics[f]) /\ IsDateForm(demographics[f].str)}

----------------------------------------------------------------------------
(* The same pin validated with a date and with that date in another century *)

\* the candidates that the text would have if the first two year digits,
\* or the two in the middle, stood for the year, and the whole year
YearTemptations(date) ==
    LET dd == SubSeq(date, 9, 10)
        mm == SubSeq(date, 6, 7)
        with(yy) == {yy \o mm, yy \o dd, mm \o yy, dd \o yy,
                     dd \o mm \o yy, mm \o dd \o yy,
                     yy \o mm \o dd, yy \o dd \o mm}
    IN  with(SubSeq(date, 1, 2)) \cup with(SubSeq(date, 2, 3))
        \cup {SubSeq(date, 1, 4)}

Centuries == {"19", "20"}

CenturyDates == {"1990-02-15", "2011-11-11"}

CenturyPins ==
    Pins
    \cup UNION {YearTemptations(c \o SubSeq(date, 3, 10)) :
                   c \in Centuries, date \in CenturyDates}

CenturyDemographics ==
    [DOMAIN NoDemographics ->
        {Undefined, Str("19900215")} \cup {Str(date) : date \in CenturyDates}]

InitCentury == InitWith(CenturyPins, CenturyDemographics)

\* handleDemographicChange(field, value) with the date of the field in
\* another century, before the next call
ChangeCentury ==
    /\ outcome # "pending"
    /\ calls = 1
    /\ \E f \in DateFields : \E c \in Centuries :
          /\ c # SubSeq(demographics[f].str, 1, 2)
          /\ demographics' =
                [demographics EXCEPT ![f] = Str(c \o SubSeq(@.str, 3, 10))]
    /\ outcome' = "pending"
    /\ result' = NoResult
    /\ UNCHANGED <<variant, commonPins4Digit, commonPins6Digit, mpin, calls,
                   history, frames, pinLength>>

NextCentury == ValidateMPIN \/ ChangeCentury

SpecCentury == InitCentury /\ [][NextCentury]_vars

----------------------------------------------------------------------------
(* The page component MPINValidatorApp *)

RECURSIVE StripNonDigits(_)
\* text.replace(/\D/g, "")
StripNonDigits(text) ==
    IF text = "" THEN ""
    ELSE (IF IsDigit(SubSeq(text, 1, 1)) THEN SubSeq(text, 1, 1) ELSE "")
         \o StripNonDigits(SubSeq(text, 2, Len(text)))

\* the values of e.target.value that the MPIN input delivers
TypedTexts == {"", "0215", "021590", "0215901", "0a21", "02-15"}

\* the values that a date input delivers
TypedDates == {"", "1990-02-15"}

PinLengths == {4, 6}

\* the state of the hooks after the first render
InitPage ==
    /\ variant \in Variants
    /\ commonPins4Digit =
         IF variant = "A" THEN CommonPins4DigitA ELSE CommonPins4DigitB
    /\ commonPins6Digit =
         IF variant = "A" THEN CommonPins6DigitA ELSE CommonPins6DigitB
    /\ mpin = ""
    /\ demographics = [dob |-> Str(""), spouseDob |-> Str(""), anniversary |-> Str("")]
    /\ result = NoResult
    /\ pinLength = 4
    /\ outcome = "pending"
    /\ calls = 0
    /\ history = <<>>
    /\ frames = <<>>

\* onClick={() => setPinLength(n)}
SetPinLength ==
    /\ pinLength' \in PinLengths
    /\ UNCHANGED <<variant, commonPins4Digit, commonPins6Digit, mpin, demographics,
                   outcome, result, calls, history, frames>>

\* onChange of the MPIN input
SetMpin ==
    /\ \E text \in TypedTexts :
          mpin' = Slice(StripNonDigits(text), 0, pinLength)
    /\ UNCHANGED <<variant, commonPins4Digit, commonPins6Digit, demographics,
                   outcome, result, calls, history, frames, pinLength>>

handleDemographicChange ==
    /\ \E field \in DOMAIN demographics : \E value \in TypedDates :
          demographics' = [demographics EXCEPT ![field] = Str(value)]
    /\ UNCHANGED <<variant, commonPins4Digit, commonPins6Digit, mpin,
                   outcome, result, calls, history, frames, pinLength>>

\* mutant: the length test of handleValidate is missing
handleValidate_NoLengthTest ==
    /\ mpin # ""
    /\ calls < MaxClicks
    /\ \E r \in {validateMPIN(mpin, demographics)} :
          /\ outcome' = r.outcome
          /\ result' = IF r.outcome = "returned" THEN r.result ELSE result
          /\ history' = Append(history,
                               [mpin |-> mpin, demographics |-> demographics,
                                outcome |-> r.outcome, result |-> r.result])
    /\ calls' = calls + 1
    /\ UNCHANGED <<variant, commonPins4Digit, commonPins6Digit, mpin, demographics,
                   frames, pinLength>>

\* a click on the Validate button, which is disabled while mpin is empty:
\* an alert when the lengths differ, else the call and setResult
handleValidate ==
    /\ mpin # ""
    /\ IF Len(mpin) # pinLength
       THEN /\ outcome' = "alert"
            /\ UNCHANGED <<result, calls, history>>
       ELSE /\ calls < MaxClicks
            /\ \E r \in {validateMPIN(mpin, demographics)} :
                  /\ outcome' = r.outcome
                  /\ result' = IF r.outcome = "returned" THEN r.result ELSE result
                  /\ history' = Append(history,
                                       [mpin |-> mpin, demographics |-> demographics,
                                        outcome |-> r.outcome, result |-> r.result])
            /\ calls' = calls + 1
    /\ UNCHANGED <<variant, commonPins4Digit, commonPins6Digit, mpin, demographics,
                   frames, pinLength>>

NextPage == SetPinLength \/ SetMpin \/ handleDemographicChange \/ handleValidate

SpecPage == InitPage /\ [][NextPage]_vars

----------------------------------------------------------------------------
(* Properties *)

\* C1: whenever validateMPIN returns, strength is STRONG if and only if
\* weaknessReasons is empty and securityScore >= 60, and WEAK otherwise.
C1_StrengthIffNoReasonsAndScore ==
    Returned =>
        /\ result.strength \in {"STRONG", "WEAK"}
        /\ result.strength = "STRONG" <=>
              (Len(result.weaknessReasons) = 0 /\ result.securityScore >= 60)

\* a call that is WEAK because of a reason although its score is at least 60
C1_Witness ==
    /\ Returned
    /\ result.strength = "WEAK"
    /\ Len(result.weaknessReasons) > 0
    /\ result.securityScore >= 60

\* C2: the securityScore returned by validateMPIN is an integer in 0..100,
\* also when the dictionary, a structural pattern and all three demographic
\* dates are deducted together.
C2_ScoreInRange == Returned => result.securityScore \in 0..100

\* a call with a dictionary hit, a pattern and three demographic matches
C2_Witness ==
    /\ Returned
    /\ Len(result.weaknessReasons) = 4
    /\ Len(result.detectedPatterns) = 2
    /\ result.securityScore = 0

\* C3: for a PIN that is a member of the 4-digit or of the 6-digit
\* dictionary, with any demographics, the result has COMMONLY_USED among
\* the weaknessReasons, securityScore <= 60 and strength WEAK.
C3_DictionaryPinIsWeak ==
    (Returned /\ mpin \in commonPins4Digit \cup commonPins6Digit) =>
        /\ "COMMONLY_USED" \in Range(result.weaknessReasons)
        /\ result.securityScore <= 60
        /\ result.strength = "WEAK"

\* a 6-digit dictionary PIN without any other deduction
C3_Witness ==
    /\ Returned
    /\ mpin \in commonPins6Digit
    /\ result.securityScore = 60
    /\ result.weaknessReasons = <<"COMMONLY_USED">>

\* C4: when a field holds a date D in YYYY-MM-DD form (a calendar date or
\* not) and the PIN is D's day+month or D's day+month+yy, the result has the
\* code of that field among the weaknessReasons and strength WEAK.
C4_OwnDateDigitsReported ==
    Returned =>
        \A f \in Fields :
            ( /\ demographics[f].type = "string"
              /\ IsDateForm(demographics[f].str)
              /\ mpin \in {DayMonth(demographics[f].str),
                           DayMonthYy(demographics[f].str)} )
            => /\ CodeOf[f] \in Range(result.weaknessReasons)
               /\ result.strength = "WEAK"

\* the spouse's date is not a calendar date and the PIN is its day+month+yy
C4_Witness ==
    /\ Returned
    /\ demographics.spouseDob = Str("1990-12-34")
    /\ mpin = "341290"
    /\ "DEMOGRAPHIC_DOB_SPOUSE" \in Range(result.weaknessReasons)

\* C5: validateMPIN never raises an error, whatever the pin and whatever
\* text the provided demographic fields hold.
C5_NeverRaises == outcome # "TypeError"

\* C6: two validateMPIN calls on one instance with identical pin and
\* demographics have identical outcomes and results, whatever calls were made
\* in between.
C6_SameInputsSameResult ==
    \A i \in 1..Len(history) : \A j \in 1..Len(history) :
        ( /\ history[i].mpin = history[j].mpin
          /\ history[i].demographics = history[j].demographics )
        => history[i] = history[j]

\* a call repeated after a different call in between
C6_Witness ==
    /\ Len(history) >= 3
    /\ history[1].mpin = history[3].mpin
    /\ history[1].demographics = history[3].demographics
    /\ history[2].mpin # history[1].mpin

\* C7 as stated: validateMPIN("1234", {}) has securityScore 60.
C7_Score60 ==
    (Returned /\ mpin = "1234" /\ demographics = NoDemographics) =>
        result = [strength |-> "WEAK",
                  weaknessReasons |-> <<"COMMONLY_USED">>,
                  securityScore |-> 60,
                  detectedPatterns |-> <<"Common PIN", "Sequential pattern">>]

\* C7: validateMPIN("1234", {}) returns strength WEAK, weaknessReasons
\* [COMMONLY_USED], securityScore 45 and detectedPatterns ["Common PIN",
\* "Sequential pattern"].
C7_Score45 ==
    (outcome # "pending" /\ mpin = "1234" /\ demographics = NoDemographics) =>
        /\ Returned
        /\ result = [strength |-> "WEAK",
                     weaknessReasons |-> <<"COMMONLY_USED">>,
                     securityScore |-> 45,
                     detectedPatterns |-> <<"Common PIN", "Sequential pattern">>]

\* validateMPIN("1234", {}) has returned
C7_Witness == Returned /\ mpin = "1234" /\ demographics = NoDemographics

\* C8: a PIN of 4 or 6 digits that is in no dictionary, matches no
\* demographic date and triggers exactly one structural detector gets
\* securityScore 85, no weaknessReasons, some detectedPatterns and STRONG.
C8_SinglePatternIsStrong85 ==
    ( /\ Returned
      /\ Len(mpin) \in {4, 6}
      /\ AllDigits(mpin)
      /\ mpin \notin commonPins4Digit \cup commonPins6Digit
      /\ MatchingFields(mpin, demographics) = {}
      /\ StructuralHits(mpin) = 1 )
    => /\ result.securityScore = 85
       /\ result.weaknessReasons = <<>>
       /\ Len(result.detectedPatterns) > 0
       /\ result.strength = "STRONG"

\* a keyboard-pattern PIN outside the dictionary, with dates that do not match
C8_Witness ==
    /\ Returned
    /\ mpin = "1470"
    /\ \A f \in Fields : Truthy(demographics[f])
    /\ result.detectedPatterns = <<"Keyboard pattern">>

\* C9: a PIN of 4 or 6 digits that is in no dictionary, triggers no
\* structural detector and matches none of the provided dates gets strength
\* STRONG, securityScore 100, no weaknessReasons and no detectedPatterns.
C9_CleanPinIsStrong100 ==
    ( /\ Returned
      /\ Len(mpin) \in {4, 6}
      /\ AllDigits(mpin)
      /\ mpin \notin commonPins4Digit \cup commonPins6Digit
      /\ MatchingFields(mpin, demographics) = {}
      /\ StructuralHits(mpin) = 0 )
    => result = [strength |-> "STRONG", weaknessReasons |-> <<>>,
                 securityScore |-> 100, detectedPatterns |-> <<>>]

\* the fixture PIN 739284 with three dates provided
C9_Witness ==
    /\ Returned
    /\ mpin = "739284"
    /\ \A f \in Fields : Truthy(demographics[f])
    /\ result.strength = "STRONG"

\* C10: weaknessReasons is a duplicate-free subsequence of [COMMONLY_USED,
\* DEMOGRAPHIC_DOB_SELF, DEMOGRAPHIC_DOB_SPOUSE, DEMOGRAPHIC_ANNIVERSARY] in
\* that order; COMMONLY_USED is in it iff the pin is in the dictionary of its
\* own length; it has no entry besides that one and one per matching field.
C10_ReasonsVocabularyAndOrder ==
    Returned =>
        /\ IsOrderedSubsequence(result.weaknessReasons, ReasonVocabulary)
        /\ "COMMONLY_USED" \in Range(result.weaknessReasons)
              <=> InOwnLengthDictionary(mpin)
        /\ Len(result.weaknessReasons) =
              (IF InOwnLengthDictionary(mpin) THEN 1 ELSE 0)
              + Cardinality(MatchingFields(mpin, demographics))

\* all four codes reported for a PIN that also shows a structural pattern
C10_Witness ==
    /\ Returned
    /\ result.weaknessReasons = ReasonVocabulary
    /\ StructuralHits(mpin) > 0

\* C11: a call with a PIN whose length is neither 4 nor 6 returns, whatever
\* the demographics, with no weaknessReasons and neither "Common PIN" nor
\* "Keyboard pattern"; "Repeated digits" only for identical characters and
\* "Sequential pattern" only for a whole-string run, 15 points each.
C11_OtherLengthsOnlyGenericChecks ==
    (outcome # "pending" /\ Len(mpin) \notin {4, 6}) =>
        /\ Returned
        /\ result.weaknessReasons = <<>>
        /\ Range(result.detectedPatterns)
              \subseteq {"Repeated digits", "Sequential pattern"}
        /\ "Repeated digits" \in Range(result.detectedPatterns)
              => AllSameChars(mpin)
        /\ "Sequential pattern" \in Range(result.detectedPatterns)
              => (IsRun(mpin, 1) \/ IsRun(mpin, -1))
        /\ result.securityScore = 100 - 15 * Len(result.detectedPatterns)

\* a 5-character truncation of the day+month+yy of the date of birth
C11_Witness ==
    /\ Returned
    /\ mpin = "15029"
    /\ demographics.dob = Str("1990-02-15")
    /\ result.strength = "STRONG"

\* the two sets are the ones the instance was constructed with
DictionariesIntact ==
    /\ commonPins4Digit =
         IF variant = "A" THEN CommonPins4DigitA ELSE CommonPins4DigitB
    /\ commonPins6Digit =
         IF variant = "A" THEN CommonPins6DigitA ELSE CommonPins6DigitB

\* a finished call has the outcome and the result of the same call run alone
FinishedAsAlone ==
    \A k \in DOMAIN frames :
        frames[k].pc \in {"returned", "TypeError"} =>
            \E alone \in {validateMPIN(frames[k].mpin, frames[k].demographics)} :
                /\ alone.outcome = frames[k].pc
                /\ frames[k].pc = "returned" =>
                      alone.result =
                         [strength |-> frames[k].strength,
                          weaknessReasons |-> frames[k].weaknessReasons,
                          securityScore |-> frames[k].securityScore,
                          detectedPatterns |-> frames[k].detectedPatterns]

\* no step changes the arguments of any call
ArgumentsKept ==
    \A k \in DOMAIN frames :
        /\ frames'[k].mpin = frames[k].mpin
        /\ frames'[k].demographics = frames[k].demographics

\* C12: calls on one instance that are interleaved statement by statement
\* each end with the result they have when run alone; no step writes the two
\* sets or the arguments of a call.
C12_InterleavedCallsAsAlone ==
    /\ [](DictionariesIntact /\ FinishedAsAlone)
    /\ [][ArgumentsKept]_vars

\* two calls have finished, one of them still being at its second statement
\* when the other had already lowered its score
C12_Witness ==
    /\ \A k \in DOMAIN frames : frames[k].pc \in {"returned", "TypeError"}
    /\ \E k \in DOMAIN frames : frames[k].pc = "returned" /\ frames[k].securityScore = 45
    /\ \E k \in DOMAIN frames : frames[k].pc = "returned" /\ frames[k].securityScore = 75

\* the fixtures of the instance that have the arguments of the call
FixturesOfCall ==
    {i \in DOMAIN generateTestCases :
        /\ generateTestCases[i].mpin = mpin
        /\ generateTestCases[i].demographics = demographics}

\* C13: every fixture of generateTestCases of the variant whose 4-digit
\* dictionary contains "2345", validated by that variant, returns and passes
\* the criterion of runTests: same strength, same sorted reasons.
C13_FixturesOfFirstVariantPass ==
    (outcome # "pending" /\ variant = "A") =>
        \A i \in FixturesOfCall :
            Returned /\ passed(generateTestCases[i], result)

\* the 'Multiple issues' fixture of the first variant has run and passed
C13_Witness ==
    /\ variant = "A" /\ "2345" \in commonPins4Digit
    /\ Returned
    /\ mpin = "1234" /\ demographics = OnlyDob("1990-12-31")
    /\ FixturesOfCall = {10}
    /\ passed(generateTestCases[10], result)

\* C14: every fixture of generateTestCases of the variant whose 4-digit
\* dictionary lacks "2345", validated by that variant, returns and passes the
\* criterion of runTests; the 'Multiple issues' fixture ("1234" with dob
\* "1990-12-34") is WEAK with exactly the reason COMMONLY_USED.
C14_FixturesOfSecondVariantPass ==
    (outcome # "pending" /\ variant = "B") =>
        \A i \in FixturesOfCall :
            Returned /\ passed(generateTestCases[i], result)

Max(a, b) == IF a >= b THEN a ELSE b

\* C15: the score of a returned result is max(0, 100 - 40*c - 15*p - 25*d),
\* c being 1 iff the pin is in the dictionary of its length, p the number of
\* labels of detectPatterns and d the number of codes of checkDemographics.
C15_ScoreFormula ==
    Returned =>
        \E c \in {IF InOwnLengthDictionary(mpin) THEN 1 ELSE 0} :
        \E p \in {Len(detectPatterns(mpin))} :
        \E d \in {Len(checkDemographics(mpin, demographics).issues)} :
            result.securityScore = Max(0, 100 - 40 * c - 15 * p - 25 * d)

\* a common sequential PIN that matches all three dates: 100 - 40 - 15 - 75
\* is below 0 and the score is 0
C15_Witness ==
    /\ Returned
    /\ mpin = "1234" /\ InOwnLengthDictionary(mpin)
    /\ Len(detectPatterns(mpin)) = 1
    /\ Len(checkDemographics(mpin, demographics).issues) = 3
    /\ result.securityScore = 0

\* the test that C16 states for one candidate v
CandidateHit(pin, v) ==
    \/ Len(pin) = 4 /\ (Slice(v, 0, 4) = pin \/ SliceLast(v, 4) = pin)
    \/ Len(pin) = 6 /\ (v = pin \/ Slice(v, 0, 6) = pin)

\* C16: for a date of the form YYYY-MM-DD, matchesDemographic(pin, date) is
\* true iff one of the ten candidates cut from the date by position hits the
\* pin: by its first or last 4 characters for a pin of length 4, as a whole or
\* by its first 6 characters for a pin of length 6; never for another length.
C16_MatchIffSomeCandidate ==
    outcome # "pending" =>
        \A f \in DateFields :
            (matchesDemographic(mpin, demographics[f].str) = "true")
            <=> (\E v \in Range(Candidates(demographics[f].str)) : CandidateHit(mpin, v))

\* a 6-digit pin that is the last candidate, year day month, of the dob
C16_Witness ==
    /\ Returned
    /\ mpin = "901502" /\ demographics.dob = Str("1990-02-15")
    /\ "dob" \in DateFields
    /\ matchesDemographic(mpin, demographics.dob.str) = "true"
    /\ "DEMOGRAPHIC_DOB_SELF" \in Range(result.weaknessReasons)

\* the positions in the array of variations of the variations of length 6
SixLong(variations) ==
    {i \in 1..Len(variations) :
        variations[i].type = "string" /\ Len(variations[i].str) = 6}

\* the positions in the array of variations of those that the pin matches
MatchedAt(pin, variations) ==
    {i \in 1..Len(variations) : variationMatches(pin, variations[i]) = "true"}

\* C17 as stated: exactly three of the ten candidates of a well-formed date
\* have length 6, and a 6-digit pin matches only those.
C17_ThreeOfLength6 ==
    outcome # "pending" =>
        \A f \in DateFields :
            \E variations \in {dateVariations(demographics[f].str)} :
                /\ Len(variations) = 10
                /\ Cardinality(SixLong(variations)) = 3
                /\ Len(mpin) = 6 =>
                      MatchedAt(mpin, variations) \subseteq SixLong(variations)

\* C17 amended: exactly four of the ten candidates of a well-formed date have
\* length 6, the last four (day month year, month day year, year month day,
\* year day month), and a 6-digit pin matches only those.
C17_FourOfLength6 ==
    outcome # "pending" =>
        \A f \in DateFields :
            \E variations \in {dateVariations(demographics[f].str)} :
                /\ Len(variations) = 10
                /\ SixLong(variations) = 7..10
                /\ Len(mpin) = 6 =>
                      MatchedAt(mpin, variations) \subseteq SixLong(variations)

\* a 6-digit pin matches the tenth candidate only
C17_Witness ==
    /\ Returned
    /\ Len(mpin) = 6 /\ "dob" \in DateFields
    /\ MatchedAt(mpin, dateVariations(demographics.dob.str)) = {10}
    /\ result.weaknessReasons = <<"DEMOGRAPHIC_DOB_SELF">>

IsDemographicCode(code) == code \in {CodeOf[f] : f \in Fields}

\* the field is a non-empty string that matches the pin
OwnFieldMatches(f) ==
    /\ demographics[f] \notin {Undefined, Str("")}
    /\ demographics[f].type = "string"
    /\ matchesDemographic(mpin, demographics[f].str) = "true"

\* C18: in a call that returns, each demographic code is reported iff its own
\* field is a non-empty string that matches the pin, whatever the other two
\* fields are; the reported codes come in the order self, spouse,
\* anniversary; and a call with an absent field has the outcome and result
\* of the same call with the empty string in that field.
C18_EachCodeByOwnField ==
    /\ Returned =>
          /\ \A f \in Fields :
                CodeOf[f] \in Range(result.weaknessReasons) <=> OwnFieldMatches(f)
          /\ SelectSeq(result.weaknessReasons, IsDemographicCode) =
                SelectSeq(<<CodeOf["dob"], CodeOf["spouseDob"], CodeOf["anniversary"]>>,
                          LAMBDA c : c \in Range(result.weaknessReasons))
    /\ outcome # "pending" =>
          \A f \in Fields :
             demographics[f] = Undefined =>
                validateMPIN(mpin, [demographics EXCEPT ![f] = Str("")]) =
                   [outcome |-> outcome, result |-> result]

\* the three dates match, one field apart from them being of no account:
\* the three codes are reported in the order self, spouse, anniversary
C18_Witness ==
    /\ Returned
    /\ mpin = "1502"
    /\ \A f \in Fields : demographics[f] = Str("1990-02-15")
    /\ result.weaknessReasons =
          <<"DEMOGRAPHIC_DOB_SELF", "DEMOGRAPHIC_DOB_SPOUSE", "DEMOGRAPHIC_ANNIVERSARY">>

\* the pin is a digit run with steps of +1 or of -1 over its whole length
IsWholeRun(pin) == IsRun(pin, 1) \/ IsRun(pin, -1)

\* the pin is a digit run when 9 is followed by 0, or 0 by 9, and not otherwise
IsWrappedRun(pin) ==
    /\ AllDigits(pin)
    /\ ~IsWholeRun(pin)
    /\ \/ \A i \in 1..(Len(pin) - 1) :
             Number(CharAt(pin, i)) = (Number(CharAt(pin, i - 1)) + 1) % 10
       \/ \A i \in 1..(Len(pin) - 1) :
             Number(CharAt(pin, i)) = (Number(CharAt(pin, i - 1)) + 9) % 10

\* C19: for a pin of digits, hasSequentialPattern is true iff the digits go up
\* by exactly 1 over the whole string or go down by exactly 1 over the whole
\* string; a run through 9-0 or 0-9 is not sequential; and a returned result
\* has the label "Sequential pattern" exactly for these runs, so for every
\* ascending or descending run of length 4 or 6.
C19_SequentialIffWholeRun ==
    (outcome # "pending" /\ AllDigits(mpin)) =>
        /\ hasSequentialPattern(mpin) <=> IsWholeRun(mpin)
        /\ IsWrappedRun(mpin) => ~hasSequentialPattern(mpin)
        /\ Returned =>
              ("Sequential pattern" \in Range(result.detectedPatterns)
                  <=> IsWholeRun(mpin))

\* a run through 9-0 of length 6 has been validated and is not labelled
C19_Witness ==
    /\ Returned
    /\ mpin = "890123" /\ IsWrappedRun(mpin)
    /\ "Sequential pattern" \notin Range(result.detectedPatterns)

\* all characters of the pin are identical, which holds of the empty pin
AllIdentical(pin) ==
    \A i \in 0..(Len(pin) - 1) : \A j \in 0..(Len(pin) - 1) :
        CharAt(pin, i) = CharAt(pin, j)

\* the shapes of length 4 and 6 that C20 lists
PairsOrHalves(pin) ==
    \/ /\ Len(pin) = 4
       /\ CharAt(pin, 0) = CharAt(pin, 1) /\ CharAt(pin, 2) = CharAt(pin, 3)
    \/ /\ Len(pin) = 6
       /\ \/ \A i \in {0, 2, 4} : CharAt(pin, i) = CharAt(pin, i + 1)
          \/ \A i \in 0..2 : CharAt(pin, i) = CharAt(pin, i + 3)

\* abab or abba with a # b
IsAbabOrAbba(pin) ==
    /\ Len(pin) = 4 /\ CharAt(pin, 0) # CharAt(pin, 1)
    /\ \/ CharAt(pin, 0) = CharAt(pin, 2) /\ CharAt(pin, 1) = CharAt(pin, 3)
       \/ CharAt(pin, 0) = CharAt(pin, 3) /\ CharAt(pin, 1) = CharAt(pin, 2)

\* C20 as stated: hasRepeatedDigits is true iff all characters of the pin are
\* identical or the pin has one of the shapes of length 4 and 6.
C20_RepeatedIffAllIdenticalOrShape ==
    outcome # "pending" =>
        (hasRepeatedDigits(mpin) <=> (AllIdentical(mpin) \/ PairsOrHalves(mpin)))

\* C20 amended: hasRepeatedDigits is true iff the pin is not empty and all its
\* characters are identical, or the pin has one of the shapes of length 4 and
\* 6; a returned result has the label "Repeated digits" exactly then, and
\* abab and abba of length 4 do not have it.
C20_RepeatedIffNonEmptyIdenticalOrShape ==
    outcome # "pending" =>
        /\ hasRepeatedDigits(mpin) <=> (AllSameChars(mpin) \/ PairsOrHalves(mpin))
        /\ IsAbabOrAbba(mpin) => ~hasRepeatedDigits(mpin)
        /\ Returned =>
              ("Repeated digits" \in Range(result.detectedPatterns)
                  <=> (AllSameChars(mpin) \/ PairsOrHalves(mpin)))

\* abab has been validated and is not labelled
C20_Witness ==
    /\ Returned
    /\ mpin = "1212" /\ IsAbabOrAbba(mpin)
    /\ "Repeated digits" \notin Range(result.detectedPatterns)

\* the ten literal strings that C21 lists
KeyboardLiterals ==
    {"2580", "1470", "3690", "1590", "7410", "9630",
     "147258", "159357", "258147", "357159"}

RECURSIVE Reverse(_)
Reverse(s) == IF s = "" THEN "" ELSE Reverse(SubSeq(s, 2, Len(s))) \o SubSeq(s, 1, 1)

\* the pin contains a listed string, or is a prefix or the reversal of one,
\* without being listed itself
NearKeyboardLiteral(pin) ==
    /\ pin \notin KeyboardLiterals
    /\ Len(pin) > 0
    /\ \E k \in KeyboardLiterals :
          \/ \E from \in 0..Len(pin) : Slice(pin, from, from + Len(k)) = k
          \/ Slice(k, 0, Len(pin)) = pin
          \/ Reverse(k) = pin

\* C21: a returned result has the label "Keyboard pattern" iff the whole pin
\* is one of the ten listed strings; a pin that contains one, starts with one,
\* or is a prefix or the reversal of one, and is not listed, does not have it.
C21_KeyboardIffListed ==
    /\ outcome # "pending" =>
          /\ hasKeyboardPattern(mpin) <=> mpin \in KeyboardLiterals
          /\ NearKeyboardLiteral(mpin) => ~hasKeyboardPattern(mpin)
    /\ Returned =>
          ("Keyboard pattern" \in Range(result.detectedPatterns)
              <=> mpin \in KeyboardLiterals)

\* the reversal of 2580 has been validated and is not labelled
C21_Witness ==
    /\ Returned
    /\ mpin = "0852" /\ NearKeyboardLiteral(mpin)
    /\ "Keyboard pattern" \notin Range(result.detectedPatterns)

\* the labels in the order in which validateMPIN can push them
PatternOrder ==
    <<"Common PIN", "Repeated digits", "Sequential pattern", "Keyboard pattern">>

\* C22: in a returned result detectedPatterns is a duplicate-free subsequence
\* of Common PIN, Repeated digits, Sequential pattern, Keyboard pattern in
\* that order; Common PIN is in it iff COMMONLY_USED is in weaknessReasons;
\* and it is the list that the same pin has without any demographics.
C22_PatternsOrderedAndDemographicFree ==
    Returned =>
        /\ IsOrderedSubsequence(result.detectedPatterns, PatternOrder)
        /\ "Common PIN" \in Range(result.detectedPatterns)
              <=> "COMMONLY_USED" \in Range(result.weaknessReasons)
        /\ \E alone \in {validateMPIN(mpin, NoDemographics)} :
              alone.result.detectedPatterns = result.detectedPatterns

\* a common sequential pin that matches the dob: two labels, none of them
\* from the demographic match
C22_Witness ==
    /\ Returned
    /\ mpin = "1234" /\ demographics.dob = Str("1990-12-34")
    /\ "DEMOGRAPHIC_DOB_SELF" \in Range(result.weaknessReasons)
    /\ result.detectedPatterns = <<"Common PIN", "Sequential pattern">>

\* both classes have validated the arguments of the state
BothValidated == Len(history) = 2 /\ outcome # "pending"

\* C23: the 4-digit sets of the two classes differ in "2345" only, which the
\* first has and the second lacks, their 6-digit sets are equal, and the two
\* classes give the same outcome and result for the same pin and
\* demographics unless the pin is "2345", for which the results differ.
C23_VariantsDifferOn2345Only ==
    /\ CommonPins4DigitA \ CommonPins4DigitB = {"2345"}
    /\ CommonPins4DigitB \ CommonPins4DigitA = {}
    /\ CommonPins6DigitA = CommonPins6DigitB
    /\ BothValidated =>
          /\ history[1].mpin = history[2].mpin
          /\ history[1].demographics = history[2].demographics
          /\ mpin # "2345" =>
                /\ history[1].outcome = history[2].outcome
                /\ history[1].result = history[2].result
          /\ (mpin = "2345" /\ Returned) => history[1].result # history[2].result

\* the pin "2345" has been validated by both classes: 45 and WEAK by the
\* first, 85 and STRONG by the second
C23_Witness ==
    /\ BothValidated /\ Returned
    /\ mpin = "2345"
    /\ {history[1].result.securityScore, history[2].result.securityScore} = {45, 85}
    /\ {history[1].result.strength, history[2].result.strength} = {"WEAK", "STRONG"}

\* C24: in a returned result strength is WEAK iff weaknessReasons is not
\* empty, and an empty weaknessReasons goes with a score of at least 70: the
\* score threshold of the classification never decides.
C24_WeakIffSomeReason ==
    Returned =>
        /\ result.strength = "WEAK" <=> result.weaknessReasons # <<>>
        /\ result.strength \in {"WEAK", "STRONG"}
        /\ result.weaknessReasons = <<>> => result.securityScore >= 70

\* the lowest score without a reason: the pin "1" is repeated and sequential
C24_Witness ==
    /\ Returned
    /\ result.weaknessReasons = <<>>
    /\ Len(result.detectedPatterns) = 2
    /\ result.securityScore = 70
    /\ result.strength = "STRONG"

\* the labels of a result that the three detectors gave
StructuralLabels(r) ==
    SelectSeq(r.detectedPatterns, LAMBDA label : label # "Common PIN")

\* C25: for a pin of length 4 or 6 at most one of hasRepeatedDigits,
\* hasSequentialPattern and hasKeyboardPattern holds, detectPatterns returns
\* at most one label, and the score of a returned result has lost 0 or 15
\* for the patterns.
C25_AtMostOneStructuralLabel ==
    (outcome # "pending" /\ Len(mpin) \in {4, 6}) =>
        /\ StructuralHits(mpin) <= 1
        /\ Len(detectPatterns(mpin)) <= 1
        /\ Returned =>
              /\ Len(StructuralLabels(result)) <= 1
              /\ \E c \in {IF "COMMONLY_USED" \in Range(result.weaknessReasons) THEN 1 ELSE 0} :
                 \E d \in {Len(result.weaknessReasons) - c} :
                 \E deduction \in {0, 15} :
                    result.securityScore = Max(0, 100 - 40 * c - 25 * d - deduction)

\* a pin of two pairs that is in no dictionary: one label, 15 lost
C25_Witness ==
    /\ Returned
    /\ mpin = "3344"
    /\ StructuralHits(mpin) = 1
    /\ result.detectedPatterns = <<"Repeated digits">>
    /\ result.securityScore = 85 - 25 * Len(result.weaknessReasons)

\* C26: a call with a pin whose length is neither 4 nor 6 returns, whatever
\* the demographics are, and its result is STRONG with a score of at least 70.
C26_OtherLengthsAreStrong ==
    (outcome # "pending" /\ Len(mpin) \notin {4, 6}) =>
        /\ Returned
        /\ result.strength = "STRONG"
        /\ result.securityScore >= 70

\* the one-digit pin, repeated and sequential, with a date text without
\* separators: STRONG with 70
C26_Witness ==
    /\ Returned
    /\ mpin = "1" /\ demographics.dob = Str("19900215")
    /\ result.strength = "STRONG"
    /\ result.securityScore = 70

\* the six candidates of 4 characters and the four of 6 characters
Candidates4(date) == {Candidates(date)[i] : i \in 1..6}
Candidates6(date) == {Candidates(date)[i] : i \in 7..10}

\* C27: for a date of the form YYYY-MM-DD a pin of length 4 matches iff it is
\* one of DDMM, MMDD, YYMM, YYDD, MMYY, DDYY, and a pin of length 6 matches
\* iff it is one of DDMMYY, MMDDYY, YYMMDD, YYDDMM.
C27_MatchIffEqualsCandidateOfOwnLength ==
    (outcome # "pending" /\ Len(mpin) \in {4, 6}) =>
        \A f \in DateFields :
            (matchesDemographic(mpin, demographics[f].str) = "true")
            <=> \/ Len(mpin) = 4 /\ mpin \in Candidates4(demographics[f].str)
                \/ Len(mpin) = 6 /\ mpin \in Candidates6(demographics[f].str)

\* year and day of the dob as a pin of length 4: matched, and by equality
C27_Witness ==
    /\ Returned
    /\ mpin = "9015" /\ demographics.dob = Str("1990-02-15")
    /\ mpin \in Candidates4(demographics.dob.str)
    /\ Head(result.weaknessReasons) = "DEMOGRAPHIC_DOB_SELF"

RECURSIVE IsSubsequence(_, _)
\* a is b with some elements left out
IsSubsequence(a, b) ==
    IF a = <<>> THEN TRUE
    ELSE IF b = <<>> THEN FALSE
    ELSE IF Head(a) = Head(b) THEN IsSubsequence(Tail(a), Tail(b))
    ELSE IsSubsequence(a, Tail(b))

\* the pin has been validated without and then with one more date
ValidatedBeforeAndAfter ==
    /\ Len(history) = 2
    /\ history[1].outcome = "returned"

\* C28: when a call returns and the same pin is validated again with one
\* absent or empty field replaced by a date of the form YYYY-MM-DD, the
\* second call returns, the first weaknessReasons is a subsequence of the
\* second, the score has not gone up, detectedPatterns is the same and a WEAK
\* pin is still WEAK.
C28_OneMoreDateNeverStronger ==
    ValidatedBeforeAndAfter =>
        /\ history[2].mpin = history[1].mpin
        /\ history[2].outcome = "returned"
        /\ IsSubsequence(history[1].result.weaknessReasons,
                         history[2].result.weaknessReasons)
        /\ history[2].result.securityScore <= history[1].result.securityScore
        /\ history[2].result.detectedPatterns = history[1].result.detectedPatterns
        /\ history[1].result.strength = "WEAK" => history[2].result.strength = "WEAK"

\* the anniversary was added to a matching dob: one more reason, 25 less,
\* and STRONG has not come back
C28_Witness ==
    /\ ValidatedBeforeAndAfter
    /\ mpin = "3412"
    /\ history[1].result.weaknessReasons = <<"DEMOGRAPHIC_DOB_SELF">>
    /\ history[2].result.weaknessReasons =
          <<"DEMOGRAPHIC_DOB_SELF", "DEMOGRAPHIC_ANNIVERSARY">>
    /\ history[2].result.securityScore = history[1].result.securityScore - 25

\* the pin has been validated with a date and with it in another century
ValidatedInTwoCenturies ==
    /\ Len(history) = 2
    /\ history[1].demographics # history[2].demographics

\* C29: two calls with the same pin whose demographics differ only in the
\* first two year digits of one YYYY-MM-DD field have the same outcome and
\* the same result; and a pin that is a candidate only when the first two
\* year digits, the two in the middle or the whole year stand for the year
\* does not match the date.
C29_CenturyIsIgnored ==
    /\ Len(history) = 2 =>
          /\ history[2].mpin = history[1].mpin
          /\ history[2].demographics # history[1].demographics
          /\ history[2].outcome = history[1].outcome
          /\ history[2].result = history[1].result
    /\ outcome # "pending" =>
          \A f \in DateFields :
             (/\ mpin \in YearTemptations(demographics[f].str)
              /\ mpin \notin Range(Candidates(demographics[f].str)))
                => matchesDemographic(mpin, demographics[f].str) # "true"

\* the whole year of the dob as a pin: STRONG in 1990 and in 2090
C29_Witness ==
    /\ ValidatedInTwoCenturies /\ Returned
    /\ mpin = "1990"
    /\ history[1].demographics.dob = Str("1990-02-15")
    /\ history[2].demographics.dob = Str("2090-02-15")
    /\ history[1].result.strength = "STRONG"
    /\ history[2].result = history[1].result

\* what a step of the page may do to the calls and the displayed result
PageStepAllowed ==
    /\ history' # history =>
          /\ Len(mpin) = pinLength
          /\ history' = Append(history,
                               [mpin |-> mpin, demographics |-> demographics,
                                outcome |-> outcome', result |-> result'])
    /\ Len(mpin) # pinLength => (result' = result /\ history' = history)
    /\ result' # result => history' # history

\* C30: on the page the stored pin consists of digits; every step that
\* invokes validateMPIN is taken with a stored pin of the selected length
\* and passes that pin and the stored demographics; and no step taken while
\* the length of the stored pin differs from the selected length invokes
\* validateMPIN or changes the displayed result.
C30_PageValidatesSelectedLengthOnly ==
    /\ [](AllDigits(mpin) /\ pinLength \in PinLengths)
    /\ [][PageStepAllowed]_vars

\* after a switch from 6 to 4 with a 6-digit pin stored, a Validate click
\* has given the alert and the result of the earlier validation is displayed
C30_Witness ==
    /\ outcome = "alert"
    /\ Len(mpin) = 6 /\ pinLength = 4
    /\ Len(history) = 1
    /\ result = history[1].result
    /\ result.strength = "WEAK"

====
